---- MODULE Spec2Model ----
(***************************************************************************)
(* Model of services/datamgmtsrv.go: the Data Manager service of Amass.    *)
(* OnDNSRequest admits one processDNSRequest goroutine at a time through    *)
(* the maxRequests semaphore; processDNSRequest normalizes the records of  *)
(* a DNS request, gives a CNAME answer priority and otherwise dispatches   *)
(* each record to its insert handler; OnASNRequest writes infrastructure   *)
(* facts without passing the semaphore.                                    *)
(*                                                                         *)
(* Go strings are modelled as sequences of one-character strings, so that  *)
(* strings.ToLower, strings.Trim, strings.TrimSpace and strings.Split are  *)
(* computed character by character.                                        *)
(***************************************************************************)
EXTENDS Integers, Sequences, FiniteSets, TLC

(***************************************************************************)
(* Bounds of the model.                                                    *)
(***************************************************************************)
\* OnDNSRequest calls made concurrently in the admission specification
NumSubs == 2
\* OnASNRequest calls made concurrently
NumAsn == 1
\* configured graph databases (sinks)
NumSinks == 2
\* longest answer set (req.Records) of the dispatch specification
MaxRecords == 2
\* failed TryAcquire attempts followed per submission
MaxFails == 8
\* heartbeat ticks followed while calls wait
MaxBeats == 1

(***************************************************************************)
(* Program constants.                                                      *)
(***************************************************************************)
\* semaphore.NewSimpleSemaphore(1)
Capacity == 1
\* maxIdx := 6
maxIdx == 6
\* delays := []int{25, 50, 75, 100, 150, 250, 500}, indexed from 1 here
delays == <<25, 50, 75, 100, 150, 250, 500>>
\* miekg/dns record types named by the dispatcher
TypeA == 1
TypeNS == 2
TypeCNAME == 5
TypePTR == 12
TypeMX == 15
TypeTXT == 16
TypeAAAA == 28
TypeSRV == 33
TypeSPF == 99

Subs == 1..NumSubs
Asns == 1..NumAsn
Sinks == 1..NumSinks

(***************************************************************************)
(* Strings.                                                                *)
(***************************************************************************)
EmptyStr == << >>

UpperCase == <<"A","B","C","D","E","F","G","H","I","J","K","L","M",
               "N","O","P","Q","R","S","T","U","V","W","X","Y","Z">>
LowerCase == <<"a","b","c","d","e","f","g","h","i","j","k","l","m",
               "n","o","p","q","r","s","t","u","v","w","x","y","z">>
WhiteSpace == {" ", "\t", "\n", "\r"}
Digits == {"0","1","2","3","4","5","6","7","8","9"}

\* unicode.ToLower on one ASCII character
LowerChar(c) ==
    IF \E k \in 1..26 : UpperCase[k] = c
    THEN LowerCase[CHOOSE k \in 1..26 : UpperCase[k] = c]
    ELSE c

\* strings.ToLower
ToLower(s) == [k \in 1..Len(s) |-> LowerChar(s[k])]

RECURSIVE TrimLeft(_, _)
TrimLeft(s, cutset) ==
    IF s # << >> /\ Head(s) \in cutset THEN TrimLeft(Tail(s), cutset) ELSE s

RECURSIVE TrimRight(_, _)
TrimRight(s, cutset) ==
    IF s # << >> /\ s[Len(s)] \in cutset
    THEN TrimRight(SubSeq(s, 1, Len(s) - 1), cutset)
    ELSE s

\* strings.Trim(s, cutset): leading and trailing characters of cutset removed
Trim(s, cutset) == TrimRight(TrimLeft(s, cutset), cutset)

\* strings.TrimSpace
TrimSpace(s) == Trim(s, WhiteSpace)

\* a normalization that lower-cases and leaves the dots
NormalizeLowerOnly(s) == ToLower(s)

\* strings.Trim(strings.ToLower(x), ".") of processDNSRequest
Normalize(s) == Trim(ToLower(s), {"."})

\* resolvers.RemoveLastDot: one trailing dot removed
RemoveLastDot(s) ==
    IF s # << >> /\ s[Len(s)] = "." THEN SubSeq(s, 1, Len(s) - 1) ELSE s

\* the pieces of strings.Split(s, sep) for a one-character separator
RECURSIVE SplitAcc(_, _, _)
SplitAcc(s, sep, cur) ==
    IF s = << >> THEN <<cur>>
    ELSE IF Head(s) = sep THEN <<cur>> \o SplitAcc(Tail(s), sep, << >>)
    ELSE SplitAcc(Tail(s), sep, Append(cur, Head(s)))

Split(s, sep) == SplitAcc(s, sep, << >>)

HasPrefix(s, p) == Len(s) >= Len(p) /\ SubSeq(s, 1, Len(p)) = p
HasSuffix(s, p) == Len(s) >= Len(p) /\ SubSeq(s, Len(s) - Len(p) + 1, Len(s)) = p
Contains(s, p) ==
    \E k \in 1..(Len(s) - Len(p) + 1) : SubSeq(s, k, k + Len(p) - 1) = p

\* the labels of a name joined again with "."
RECURSIVE JoinDot(_)
JoinDot(ls) ==
    IF ls = << >> THEN << >>
    ELSE IF Len(ls) = 1 THEN ls[1]
    ELSE ls[1] \o <<".">> \o JoinDot(Tail(ls))

\* publicsuffix.EffectiveTLDPlusOne under the list's default rule "*" (the
\* public suffix is the last label): an error for an empty label or for a
\* name that is no longer than its suffix, else the last two labels.
EffectiveTLDPlusOne(domain) ==
    LET ls == Split(domain, ".")
        n == Len(ls)
    IN  IF HasPrefix(domain, <<".">>) \/ HasSuffix(domain, <<".">>)
           \/ Contains(domain, <<".", ".">>)
        THEN [err |-> TRUE, domain |-> EmptyStr]
        ELSE IF n < 2
        THEN [err |-> TRUE, domain |-> EmptyStr]
        ELSE [err |-> FALSE, domain |-> JoinDot(SubSeq(ls, n - 1, n))]

IsLower(s) == \A k \in 1..Len(s) : \A j \in 1..26 : s[k] # UpperCase[j]
NoTrailingDot(s) == s = << >> \/ s[Len(s)] # "."

(***************************************************************************)
(* The scope authority (config.Config) and the text patterns.              *)
(***************************************************************************)
\* cfg.WhichDomain: the in-scope domain that name equals or is a subdomain
\* of, the empty string when there is none
WhichDomain(sc, name) ==
    LET hits == {d \in sc : name = d \/ HasSuffix(name, <<".">> \o d)}
    IN  IF hits = {} THEN EmptyStr ELSE CHOOSE d \in hits : TRUE

\* cfg.IsDomainInScope
IsDomainInScope(sc, name) ==
    \E d \in sc : ToLower(name) = d \/ HasSuffix(ToLower(name), <<".">> \o d)

Letters == {LowerCase[k] : k \in 1..26} \cup {UpperCase[k] : k \in 1..26}

\* one blank-separated token of the data is an IPv4 literal (net.IPv4RE)
IsIPv4(tok) ==
    LET ls == Split(tok, ".")
    IN  /\ Len(ls) = 4
        /\ \A k \in 1..4 :
               /\ Len(ls[k]) \in 1..3
               /\ \A j \in 1..Len(ls[k]) : ls[k][j] \in Digits

\* one token has the shape of a subdomain name (dns.AnySubdomainRegex):
\* labels of letters, digits, "_" and "-" joined by dots, letters at the end
IsSubdomain(tok) ==
    LET ls == Split(tok, ".")
    IN  /\ Len(ls) >= 2
        /\ \A k \in 1..Len(ls) :
               /\ ls[k] # << >>
               /\ \A j \in 1..Len(ls[k]) :
                      ls[k][j] \in Letters \cup Digits \cup {"_", "-"}
        /\ \A j \in 1..Len(ls[Len(ls)]) : ls[Len(ls)][j] \in Letters

\* the last ":"-separated part of a token ("ip4:203.0.113.5", "include:x.y")
Bare(tok) == LET ps == Split(tok, ":") IN ps[Len(ps)]

Tokens(data) ==
    LET ws == Split(data, " ") IN [k \in 1..Len(ws) |-> Bare(ws[k])]

\* ipre.FindAllString(data, -1)
FindIPv4(data) == SelectSeq(Tokens(data), IsIPv4)

\* subre.FindAllString(data, -1)
FindSubdomains(data) == SelectSeq(Tokens(data), IsSubdomain)

(***************************************************************************)
(* What a call does to the outside: sink inserts and bus publications, in  *)
(* the order the code performs them.  "call" marks a handler's entry.      *)
(***************************************************************************)
DNSTag == "dns"

Ev(op, h, i, g, a, b, c, tag, src, ok) ==
    [op |-> op, h |-> h, idx |-> i, sink |-> g, a |-> a, b |-> b, c |-> c,
     tag |-> tag, src |-> src, ok |-> ok]

\* entry into the handler h for the record at recidx
CallEv(h, i) == Ev("call", h, i, 0, EmptyStr, EmptyStr, EmptyStr, "", "", TRUE)
\* g.InsertX(a, b[, c], ...) on sink g, which answers ok or an error
InsertEv(h, i, g, a, b, c, ok) == Ev("insert", h, i, g, a, b, c, "", "", ok)
\* bus.Publish(requests.LogTopic, ...) for the failed insert on sink g
LogEv(h, i, g) == Ev("log", h, i, g, EmptyStr, EmptyStr, EmptyStr, "", "", TRUE)
\* bus.Publish(requests.NewNameTopic, ..., &DNSRequest{Name, Domain, Tag, Source})
NameEv(h, i, name, domain, tag, src) ==
    Ev("name", h, i, 0, name, domain, EmptyStr, tag, src, TRUE)
\* bus.Publish(requests.NewAddrTopic, ..., &AddrRequest{Address, Domain, Tag, Source})
AddrEv(h, i, addr, domain, tag, src) ==
    Ev("addr", h, i, 0, addr, domain, EmptyStr, tag, src, TRUE)
\* bus.Publish(requests.SetActiveTopic, ...)
ActiveEv(h, i) == Ev("active", h, i, 0, EmptyStr, EmptyStr, EmptyStr, "", "", TRUE)

\* for _, g := range dms.System().GraphDatabases(): one insert per sink in
\* order, and a log message after each insert that failed (g \in F)
RECURSIVE SinkLoopFrom(_, _, _, _, _, _, _)
SinkLoopFrom(g, h, i, a, b, c, F) ==
    IF g > NumSinks THEN << >>
    ELSE <<InsertEv(h, i, g, a, b, c, g \notin F)>>
         \o (IF g \in F THEN <<LogEv(h, i, g)>> ELSE << >>)
         \o SinkLoopFrom(g + 1, h, i, a, b, c, F)

\* a sink loop that gives up at the first failing sink
SinkLoopAbort(h, i, a, b, c, F) ==
    LET upto == IF F = {} THEN NumSinks
                ELSE CHOOSE g \in F : \A g2 \in F : g <= g2
    IN  [k \in 1..upto |-> InsertEv(h, i, k, a, b, c, k \notin F)]

SinkLoop(h, i, a, b, c, F) == SinkLoopFrom(1, h, i, a, b, c, F)

(***************************************************************************)
(* The record handlers.  req is the DNS request with its context (req.bus  *)
(* and req.cfg say whether the context holds an event bus and a config),   *)
(* recidx the record's index, sc the scope of the config and F the set of  *)
(* sinks whose insert fails.  The value is what the handler does, in       *)
(* order.                                                                  *)
(***************************************************************************)
\* a CNAME handler that ignores a failed domain derivation
insertCNAMEUnchecked(req, recidx, sc, F) ==
    LET target == RemoveLastDot(req.Records[recidx].Data)
        etld == EffectiveTLDPlusOne(target)
        domain == ToLower(etld.domain)
    IN  IF ~req.cfg \/ ~req.bus THEN << >>
        ELSE IF target = EmptyStr THEN << >>
        ELSE SinkLoop("CNAME", recidx, req.Name, target, EmptyStr, F)
             \o <<NameEv("CNAME", recidx, target, domain, DNSTag, "DNS")>>
             \o <<ActiveEv("CNAME", recidx)>>

insertCNAME(req, recidx, sc, F) ==
    LET target == RemoveLastDot(req.Records[recidx].Data)
        etld == EffectiveTLDPlusOne(target)
        domain == ToLower(etld.domain)
    IN  IF ~req.cfg \/ ~req.bus THEN << >>
        ELSE IF target = EmptyStr THEN << >>
        ELSE IF etld.err THEN << >>
        ELSE IF domain = EmptyStr THEN << >>
        ELSE SinkLoop("CNAME", recidx, req.Name, target, EmptyStr, F)
             \o <<NameEv("CNAME", recidx, target, domain, DNSTag, "DNS")>>
             \o <<ActiveEv("CNAME", recidx)>>

\* an A handler that publishes the address before it writes the fact
insertAEventFirst(req, recidx, sc, F) ==
    LET addr == TrimSpace(req.Records[recidx].Data)
    IN  IF ~req.cfg \/ ~req.bus THEN << >>
        ELSE IF addr = EmptyStr THEN << >>
        ELSE <<AddrEv("A", recidx, addr, req.Domain, req.Tag, req.Source)>>
             \o SinkLoop("A", recidx, req.Name, addr, EmptyStr, F)
             \o <<ActiveEv("A", recidx)>>

insertA(req, recidx, sc, F) ==
    LET addr == TrimSpace(req.Records[recidx].Data)
    IN  IF ~req.cfg \/ ~req.bus THEN << >>
        ELSE IF addr = EmptyStr THEN << >>
        ELSE SinkLoop("A", recidx, req.Name, addr, EmptyStr, F)
             \o <<AddrEv("A", recidx, addr, req.Domain, req.Tag, req.Source)>>
             \o <<ActiveEv("A", recidx)>>

insertAAAA(req, recidx, sc, F) ==
    LET addr == TrimSpace(req.Records[recidx].Data)
    IN  IF ~req.cfg \/ ~req.bus THEN << >>
        ELSE IF addr = EmptyStr THEN << >>
        ELSE SinkLoop("AAAA", recidx, req.Name, addr, EmptyStr, F)
             \o <<AddrEv("AAAA", recidx, addr, req.Domain, req.Tag, req.Source)>>
             \o <<ActiveEv("AAAA", recidx)>>

\* a PTR handler that writes the fact before it asks for the scope
insertPTRWriteFirst(req, recidx, sc, F) ==
    LET target == RemoveLastDot(req.Records[recidx].Data)
        domain == ToLower(WhichDomain(sc, target))
    IN  IF ~req.cfg \/ ~req.bus THEN << >>
        ELSE IF target = EmptyStr THEN << >>
        ELSE SinkLoop("PTR", recidx, req.Name, target, EmptyStr, F)
             \o (IF domain = EmptyStr THEN << >>
                 ELSE <<NameEv("PTR", recidx, target, domain, DNSTag, req.Source)>>)
             \o <<ActiveEv("PTR", recidx)>>

insertPTR(req, recidx, sc, F) ==
    LET target == RemoveLastDot(req.Records[recidx].Data)
        domain == ToLower(WhichDomain(sc, target))
    IN  IF ~req.cfg \/ ~req.bus THEN << >>
        ELSE IF target = EmptyStr THEN << >>
        ELSE IF domain = EmptyStr THEN << >>
        ELSE SinkLoop("PTR", recidx, req.Name, target, EmptyStr, F)
             \o <<NameEv("PTR", recidx, target, domain, DNSTag, req.Source)>>
             \o <<ActiveEv("PTR", recidx)>>

\* an SRV handler that publishes the target whatever the scope says
insertSRVNoScope(req, recidx, sc, F) ==
    LET service == RemoveLastDot(req.Records[recidx].Name)
        target == RemoveLastDot(req.Records[recidx].Data)
        domain == WhichDomain(sc, target)
    IN  IF ~req.cfg \/ ~req.bus THEN << >>
        ELSE IF target = EmptyStr \/ service = EmptyStr THEN << >>
        ELSE SinkLoop("SRV", recidx, req.Name, service, target, F)
             \o <<NameEv("SRV", recidx, target, domain, req.Tag, req.Source)>>
             \o <<ActiveEv("SRV", recidx)>>

insertSRV(req, recidx, sc, F) ==
    LET service == RemoveLastDot(req.Records[recidx].Name)
        target == RemoveLastDot(req.Records[recidx].Data)
        domain == WhichDomain(sc, target)
    IN  IF ~req.cfg \/ ~req.bus THEN << >>
        ELSE IF target = EmptyStr \/ service = EmptyStr THEN << >>
        ELSE SinkLoop("SRV", recidx, req.Name, service, target, F)
             \o (IF domain # EmptyStr
                 THEN <<NameEv("SRV", recidx, target, domain, req.Tag, req.Source)>>
                 ELSE << >>)
             \o <<ActiveEv("SRV", recidx)>>

\* an NS handler that publishes the target also when it is the apex
insertNSAlways(req, recidx, sc, F) ==
    LET pieces == Split(req.Records[recidx].Data, ",")
        target == pieces[Len(pieces)]
        etld == EffectiveTLDPlusOne(target)
        domain == ToLower(etld.domain)
    IN  IF ~req.cfg \/ ~req.bus THEN << >>
        ELSE IF target = EmptyStr THEN << >>
        ELSE IF etld.err THEN << >>
        ELSE IF domain = EmptyStr THEN << >>
        ELSE SinkLoop("NS", recidx, req.Name, target, EmptyStr, F)
             \o <<NameEv("NS", recidx, target, domain, DNSTag, "DNS")>>
             \o <<ActiveEv("NS", recidx)>>

insertNS(req, recidx, sc, F) ==
    LET pieces == Split(req.Records[recidx].Data, ",")
        target == pieces[Len(pieces)]
        etld == EffectiveTLDPlusOne(target)
        domain == ToLower(etld.domain)
    IN  IF ~req.cfg \/ ~req.bus THEN << >>
        ELSE IF target = EmptyStr THEN << >>
        ELSE IF etld.err THEN << >>
        ELSE IF domain = EmptyStr THEN << >>
        ELSE SinkLoop("NS", recidx, req.Name, target, EmptyStr, F)
             \o (IF target # domain
                 THEN <<NameEv("NS", recidx, target, domain, DNSTag, "DNS")>>
                 ELSE << >>)
             \o <<ActiveEv("NS", recidx)>>

insertMX(req, recidx, sc, F) ==
    LET target == RemoveLastDot(req.Records[recidx].Data)
        etld == EffectiveTLDPlusOne(target)
        domain == ToLower(etld.domain)
    IN  IF ~req.cfg \/ ~req.bus THEN << >>
        ELSE IF target = EmptyStr THEN << >>
        ELSE IF etld.err THEN << >>
        ELSE IF domain = EmptyStr THEN << >>
        ELSE SinkLoop("MX", recidx, req.Name, target, EmptyStr, F)
             \o (IF target # domain
                 THEN <<NameEv("MX", recidx, target, domain, DNSTag, "DNS")>>
                 ELSE << >>)
             \o <<ActiveEv("MX", recidx)>>

\* the second loop of findNamesAndAddresses over the names found
RECURSIVE MinedNames(_, _, _, _)
MinedNames(names, h, recidx, sc) ==
    IF names = << >> THEN << >>
    ELSE LET name == Head(names)
             domain == ToLower(WhichDomain(sc, name))
         IN  (IF ~IsDomainInScope(sc, name) THEN << >>
              ELSE IF domain = EmptyStr THEN << >>
              ELSE <<NameEv(h, recidx, name, domain, DNSTag, "DNS")>>)
             \o MinedNames(Tail(names), h, recidx, sc)

\* h and recidx name the handler and record the text was taken from
findNamesAndAddresses(req, h, recidx, sc, data, domain) ==
    LET ips == FindIPv4(data)
    IN  IF ~req.cfg \/ ~req.bus THEN << >>
        ELSE [k \in 1..Len(ips) |-> AddrEv(h, recidx, ips[k], domain, DNSTag, "DNS")]
             \o MinedNames(FindSubdomains(data), h, recidx, sc)
             \o <<ActiveEv(h, recidx)>>

\* a TXT handler that mines the text whatever the scope of the query name
insertTXTNoScope(req, recidx, sc, F) ==
    IF ~req.cfg THEN << >>
    ELSE findNamesAndAddresses(req, "TXT", recidx, sc,
                               req.Records[recidx].Data, req.Domain)

insertTXT(req, recidx, sc, F) ==
    IF ~req.cfg THEN << >>
    ELSE IF ~IsDomainInScope(sc, req.Name) THEN << >>
    ELSE findNamesAndAddresses(req, "TXT", recidx, sc,
                               req.Records[recidx].Data, req.Domain)

insertSPF(req, recidx, sc, F) ==
    IF ~req.cfg THEN << >>
    ELSE IF ~IsDomainInScope(sc, req.Name) THEN << >>
    ELSE findNamesAndAddresses(req, "SPF", recidx, sc,
                               req.Records[recidx].Data, req.Domain)

\* an OnASNRequest that returns only when all three fields are empty
OnASNRequestAnyField(areq, F) ==
    IF areq.Address = EmptyStr /\ areq.Prefix = EmptyStr
       /\ areq.Description = EmptyStr
    THEN << >>
    ELSE IF ~areq.cfg \/ ~areq.bus THEN << >>
    ELSE SinkLoop("ASN", 0, areq.Address, areq.Prefix, areq.Description, F)
         \o <<ActiveEv("ASN", 0)>>

\* OnASNRequest: areq is the ASN request with its context
OnASNRequest(areq, F) ==
    IF areq.Address = EmptyStr \/ areq.Prefix = EmptyStr
       \/ areq.Description = EmptyStr
    THEN << >>
    ELSE IF ~areq.cfg \/ ~areq.bus THEN << >>
    ELSE SinkLoop("ASN", 0, areq.Address, areq.Prefix, areq.Description, F)
         \o <<ActiveEv("ASN", 0)>>

(***************************************************************************)
(* processDNSRequest, one loop iteration at a time.                        *)
(***************************************************************************)
\* uint16(r.Type)
Uint16(n) == n % 65536

NormalizeRecord(r) ==
    [r EXCEPT !.Name = Normalize(r.Name), !.Data = Normalize(r.Data)]

\* a first loop that returns only when the CNAME handler accepted the record
ScanStepSkipInvalid(req, i, sc, F) ==
    LET r == req.Records[i]
        req2 == [req EXCEPT !.Records[i] = NormalizeRecord(r)]
        out == insertCNAME(req2, i, sc, F)
    IN  IF Uint16(r.Type) = TypeCNAME
        THEN [req |-> req2, stop |-> out # << >>,
              out |-> <<CallEv("CNAME", i)>> \o out]
        ELSE [req |-> req2, stop |-> FALSE, out |-> << >>]

\* a first loop that goes on after the CNAME handler
ScanStepNoReturn(req, i, sc, F) ==
    LET r == req.Records[i]
        req2 == [req EXCEPT !.Records[i] = NormalizeRecord(r)]
    IN  IF Uint16(r.Type) = TypeCNAME
        THEN [req |-> req2, stop |-> FALSE,
              out |-> <<CallEv("CNAME", i)>> \o insertCNAME(req2, i, sc, F)]
        ELSE [req |-> req2, stop |-> FALSE, out |-> << >>]

\* one iteration of "for i, r := range req.Records" at lines 86-95: the
\* record is normalized in place; a CNAME record is handled and ends the call
ScanStep(req, i, sc, F) ==
    LET r == req.Records[i]
        req2 == [req EXCEPT !.Records[i] = NormalizeRecord(r)]
    IN  IF Uint16(r.Type) = TypeCNAME
        THEN [req |-> req2, stop |-> TRUE,
              out |-> <<CallEv("CNAME", i)>> \o insertCNAME(req2, i, sc, F)]
        ELSE [req |-> req2, stop |-> FALSE, out |-> << >>]

\* a switch whose default case takes the record for an A record
DispatchStepDefaultA(req, i, sc, F) ==
    LET ty == Uint16(req.Records[i].Type)
    IN  <<ActiveEv("", i)>>
        \o (CASE ty = TypeAAAA -> <<CallEv("AAAA", i)>> \o insertAAAA(req, i, sc, F)
              [] ty = TypePTR -> <<CallEv("PTR", i)>> \o insertPTR(req, i, sc, F)
              [] ty = TypeSRV -> <<CallEv("SRV", i)>> \o insertSRV(req, i, sc, F)
              [] ty = TypeNS -> <<CallEv("NS", i)>> \o insertNS(req, i, sc, F)
              [] ty = TypeMX -> <<CallEv("MX", i)>> \o insertMX(req, i, sc, F)
              [] ty = TypeTXT -> <<CallEv("TXT", i)>> \o insertTXT(req, i, sc, F)
              [] ty = TypeSPF -> <<CallEv("SPF", i)>> \o insertSPF(req, i, sc, F)
              [] OTHER -> <<CallEv("A", i)>> \o insertA(req, i, sc, F))

\* one iteration of the loop at lines 97-118: a heartbeat, then the switch
DispatchStep(req, i, sc, F) ==
    LET ty == Uint16(req.Records[i].Type)
    IN  <<ActiveEv("", i)>>
        \o (CASE ty = TypeA -> <<CallEv("A", i)>> \o insertA(req, i, sc, F)
              [] ty = TypeAAAA -> <<CallEv("AAAA", i)>> \o insertAAAA(req, i, sc, F)
              [] ty = TypePTR -> <<CallEv("PTR", i)>> \o insertPTR(req, i, sc, F)
              [] ty = TypeSRV -> <<CallEv("SRV", i)>> \o insertSRV(req, i, sc, F)
              [] ty = TypeNS -> <<CallEv("NS", i)>> \o insertNS(req, i, sc, F)
              [] ty = TypeMX -> <<CallEv("MX", i)>> \o insertMX(req, i, sc, F)
              [] ty = TypeTXT -> <<CallEv("TXT", i)>> \o insertTXT(req, i, sc, F)
              [] ty = TypeSPF -> <<CallEv("SPF", i)>> \o insertSPF(req, i, sc, F)
              [] OTHER -> << >>)

\* a task that returns without giving its slot back
ReleaseForgotten(ph) == 0

\* a release that is skipped on the CNAME return
ReleaseNotDeferred(ph) == IF ph = "retCNAME" THEN 0 ELSE 1

\* defer dms.maxRequests.Release(1): the slots given back when the call
\* returns in phase ph (retNoBus, retCNAME or retEnd)
DeferredRelease(ph) == 1

(***************************************************************************)
(* OnDNSRequest.                                                           *)
(***************************************************************************)
\* a select that may fall to default although the quit channel is closed
SelectReadyAny(q) == IF q THEN {"quit", "tick", "default"} ELSE {"tick", "default"}

\* the cases the select of lines 55-60 may take: a ready channel case is
\* taken before default; the ticker may or may not have a tick waiting
SelectReady(q) == IF q THEN {"quit", "tick"} ELSE {"tick", "default"}

\* a curIdx that starts again from 0 after the longest delay
AfterTryWrap(ok, cur) ==
    IF ~ok
    THEN [launch |-> FALSE, sleep |-> delays[cur + 1],
          curIdx |-> IF cur < maxIdx THEN cur + 1 ELSE 0]
    ELSE [launch |-> TRUE, sleep |-> 0, curIdx |-> 0]

\* launching the task whether or not a slot was acquired
AfterTryUnchecked(ok, cur) == [launch |-> TRUE, sleep |-> 0, curIdx |-> 0]

\* lines 61-71 after TryAcquire answered ok with curIdx = cur: whether the
\* task is launched, the milliseconds slept and the next curIdx
AfterTry(ok, cur) ==
    IF ~ok
    THEN [launch |-> FALSE, sleep |-> delays[cur + 1],
          curIdx |-> IF cur < maxIdx THEN cur + 1 ELSE cur]
    ELSE [launch |-> TRUE, sleep |-> 0, curIdx |-> 0]

\* semaphore.TryAcquire(1) on a semaphore with free slots left
TryAcquire(free) ==
    IF free >= 1 THEN [ok |-> TRUE, free |-> free - 1]
    ELSE [ok |-> FALSE, free |-> free]

\* semaphore.Release(n)
Release(free, n) == free + n

(***************************************************************************)
(* Inputs: the strings, records and requests the specifications draw from. *)
(***************************************************************************)
sQueryRaw == <<"w",".","E","X",".","c","o","m",".">>
sQuery == <<"w",".","e","x",".","c","o","m">>
sDomain == <<"e","x",".","c","o","m">>
sCdnRaw == <<"e",".","c","d","n",".","N","E","T",".">>
sCdn == <<"e",".","c","d","n",".","n","e","t">>
sDot == <<".">>
sTLD == <<"c","o","m">>
sAddrRaw == <<"1",".","2",".","3",".","4"," ">>
sAddr == <<"1",".","2",".","3",".","4">>
sBlank == <<" ">>
sAddr6 == <<":",":","1">>
sArpa == <<"4",".","3",".","a","r","p","a">>
sHostRaw == <<"H",".","e","x",".","c","o","m",".">>
sSrvName == <<"_","s",".","e","x",".","c","o","m",".">>
sSrvTarget == <<"t",".","e","x",".","c","o","m",".">>
sNSRaw == <<"a",",","n","s",".","e","x",".","c","o","m",".">>
sMXRaw == <<"m",".","c","d","n",".","n","e","t",".">>
sTextRaw == <<"i","p","4",":","1",".","2",".","3",".","4"," ","x",".","E","X",".","c","o","m"," ","y",".","o","r","g">>
sSOA == <<"S",".">>
sPrefix == <<"1",".","2",".","0",".","0","/","1","6">>
sDesc == <<"A","S">>

Rec(name, type, data) == [Name |-> name, Type |-> type, Data |-> data]

\* the records an answer set is made of
RecordPool ==
    { Rec(sQueryRaw, TypeCNAME, sCdnRaw),
      Rec(sQuery, TypeCNAME, sDot),
      Rec(sQuery, TypeCNAME, sTLD),
      Rec(sQueryRaw, TypeA, sAddrRaw),
      Rec(sQuery, TypeA, sBlank),
      Rec(sQueryRaw, TypeAAAA, sAddr6),
      Rec(sArpa, TypePTR, sHostRaw),
      Rec(sSrvName, TypeSRV, sSrvTarget),
      Rec(sDot, TypeSRV, sSrvTarget),
      Rec(sQueryRaw, TypeNS, sNSRaw),
      Rec(sQuery, TypeNS, sDomain),
      Rec(sQueryRaw, TypeMX, sMXRaw),
      Rec(sQuery, TypeMX, sDomain),
      Rec(sQueryRaw, TypeTXT, sTextRaw),
      Rec(sQueryRaw, TypeSPF, sTextRaw),
      \* a type the switch has no case for (SOA)
      Rec(sQueryRaw, 6, sSOA) }

AnswerSets == UNION {[1..n -> RecordPool] : n \in 0..MaxRecords}

\* a context holds an event bus and a config, or a nil pointer for either
Contexts == {<<TRUE, TRUE>>, <<TRUE, FALSE>>, <<FALSE, TRUE>>}

Req(name, records, ctx) ==
    [Name |-> name, Domain |-> sDomain, Tag |-> "cert", Source |-> "Resolver",
     Records |-> records, bus |-> ctx[1], cfg |-> ctx[2]]

\* the requests of the dispatch specification
Requests ==
    {Req(name, records, ctx) :
        name \in {sQueryRaw, sQuery}, records \in AnswerSets, ctx \in Contexts}

\* the requests of the admission specification: every other call brings a
\* CNAME answer, the calls between them an A answer
SubRequest(s) ==
    IF s % 2 = 1
    THEN Req(sQueryRaw, <<Rec(sQuery, TypeCNAME, sDot)>>, <<TRUE, TRUE>>)
    ELSE Req(sQuery, <<Rec(sQuery, TypeA, sBlank)>>, <<TRUE, TRUE>>)

\* the requests of the mixed specification: an A answer or a CNAME answer
MixRequests ==
    {Req(sQuery, <<rec>>, <<TRUE, TRUE>>) :
        rec \in {Rec(sQueryRaw, TypeA, sAddrRaw), Rec(sQueryRaw, TypeCNAME, sCdnRaw)}}

NoReq == Req(EmptyStr, << >>, <<FALSE, FALSE>>)

AsnReq(address, prefix, desc, ctx) ==
    [ASN |-> 64500, Address |-> address, Prefix |-> prefix, Description |-> desc,
     bus |-> ctx[1], cfg |-> ctx[2]]

AsnRequests ==
    {AsnReq(a, p, d, ctx) :
        a \in {EmptyStr, sAddr}, p \in {EmptyStr, sPrefix}, d \in {EmptyStr, sDesc},
        ctx \in Contexts}

NoAsnReq == AsnReq(EmptyStr, EmptyStr, EmptyStr, <<FALSE, FALSE>>)

\* the scopes a config may hold
Scopes == {{}, {sDomain}}

(***************************************************************************)
(* State.                                                                  *)
(***************************************************************************)
VARIABLES
    sem,        \* free slots of dms.maxRequests
    quit,       \* the channel dms.Quit() is closed
    scope,      \* the domains of the config
    pc,         \* where each OnDNSRequest call is
    curIdx,     \* its curIdx
    req,        \* its request; the records are normalized in place
    phase,      \* where its processDNSRequest goroutine is
    idx,        \* the loop index of that goroutine
    pending,    \* what the running handler has still to do
    trace,      \* what the goroutine has done so far
    fails,      \* failed TryAcquire attempts of each call
    slept,      \* milliseconds slept after the latest failed attempt
    beats,      \* heartbeats published by waiting calls so far
    acquired,   \* slots each call has acquired
    released,   \* slots each goroutine has released
    asnReq,     \* the request of each OnASNRequest call
    asnPc,      \* where that call is
    asnPending, \* what it has still to do
    asnTrace    \* what it has done so far

vars == <<sem, quit, scope, pc, curIdx, req, phase, idx, pending, trace, fails,
          slept, beats, acquired, released, asnReq, asnPc, asnPending, asnTrace>>

dnsVars == <<sem, quit, pc, curIdx, req, phase, idx, pending, trace, fails,
             slept, beats, acquired, released>>
asnVars == <<asnReq, asnPc, asnPending, asnTrace>>

(***************************************************************************)
(* Initial states.  NewDataManagerService leaves the semaphore full; no    *)
(* call has begun.                                                         *)
(***************************************************************************)
InitCommon ==
    /\ sem = Capacity
    /\ quit = FALSE
    /\ curIdx = [s \in Subs |-> 0]
    /\ phase = [s \in Subs |-> "idle"]
    /\ idx = [s \in Subs |-> 0]
    /\ pending = [s \in Subs |-> << >>]
    /\ trace = [s \in Subs |-> << >>]
    /\ fails = [s \in Subs |-> 0]
    /\ slept = [s \in Subs |-> 0]
    /\ beats = 0
    /\ acquired = [s \in Subs |-> 0]
    /\ released = [s \in Subs |-> 0]
    /\ asnPending = [a \in Asns |-> << >>]
    /\ asnTrace = [a \in Asns |-> << >>]

\* the admission specification: every caller is about to call OnDNSRequest
Init ==
    /\ InitCommon
    /\ scope = {sDomain}
    /\ pc = [s \in Subs |-> "call"]
    /\ req = [s \in Subs |-> SubRequest(s)]
    /\ asnPc = [a \in Asns |-> "none"]
    /\ asnReq = [a \in Asns |-> NoAsnReq]

\* the dispatch specification: one call, OnDNSRequest or OnASNRequest, with
\* any request, context and scope
InitPipe ==
    /\ InitCommon
    /\ scope \in Scopes
    /\ \/ /\ pc = [s \in Subs |-> IF s = 1 THEN "call" ELSE "none"]
          /\ \E r \in Requests : req = [s \in Subs |-> IF s = 1 THEN r ELSE NoReq]
          /\ asnPc = [a \in Asns |-> "none"]
          /\ asnReq = [a \in Asns |-> NoAsnReq]
       \/ /\ pc = [s \in Subs |-> "none"]
          /\ req = [s \in Subs |-> NoReq]
          /\ asnPc = [a \in Asns |-> IF a = 1 THEN "call" ELSE "none"]
          /\ \E r \in AsnRequests :
                 asnReq = [a \in Asns |-> IF a = 1 THEN r ELSE NoAsnReq]

\* the mixed specification: one OnDNSRequest call while every OnASNRequest
\* caller brings the same request
InitMix ==
    /\ InitCommon
    /\ scope = {sDomain}
    /\ pc = [s \in Subs |-> IF s = 1 THEN "call" ELSE "none"]
    /\ \E r \in MixRequests : req = [s \in Subs |-> IF s = 1 THEN r ELSE NoReq]
    /\ asnPc = [a \in Asns |-> "call"]
    /\ \E r \in AsnRequests : asnReq = [a \in Asns |-> r]

(***************************************************************************)
(* OnDNSRequest, lines 41-74.                                              *)
(***************************************************************************)
\* lines 42-52: without a bus the call returns at once
DNSCall(s) ==
    /\ pc[s] = "call"
    /\ pc' = [pc EXCEPT ![s] = IF req[s].bus THEN "select" ELSE "nobus"]
    /\ curIdx' = [curIdx EXCEPT ![s] = 0]
    /\ UNCHANGED <<sem, quit, scope, req, phase, idx, pending, trace, fails,
                   slept, beats, acquired, released>>
    /\ UNCHANGED asnVars

\* case <-dms.Quit(): return
DNSSelectQuit(s) ==
    /\ pc[s] = "select"
    /\ "quit" \in SelectReady(quit)
    /\ pc' = [pc EXCEPT ![s] = "cancelled"]
    /\ UNCHANGED <<sem, quit, scope, curIdx, req, phase, idx, pending, trace,
                   fails, slept, beats, acquired, released>>
    /\ UNCHANGED asnVars

\* case <-t.C: a heartbeat, then the loop again
DNSSelectTick(s) ==
    /\ pc[s] = "select"
    /\ "tick" \in SelectReady(quit)
    /\ beats < MaxBeats
    /\ beats' = beats + 1
    /\ UNCHANGED <<sem, quit, scope, pc, curIdx, req, phase, idx, pending, trace,
                   fails, slept, acquired, released>>
    /\ UNCHANGED asnVars

\* default: chosen when no channel case is ready
DNSSelectDefault(s) ==
    /\ pc[s] = "select"
    /\ "default" \in SelectReady(quit)
    /\ pc' = [pc EXCEPT ![s] = "try"]
    /\ UNCHANGED <<sem, quit, scope, curIdx, req, phase, idx, pending, trace,
                   fails, slept, beats, acquired, released>>
    /\ UNCHANGED asnVars

\* lines 61-71: TryAcquire; on failure sleep, advance curIdx and loop; on
\* success reset curIdx, start the goroutine and return
DNSTry(s) ==
    /\ pc[s] = "try"
    /\ LET got == TryAcquire(sem)
           nxt == AfterTry(got.ok, curIdx[s])
       IN  /\ ~nxt.launch => fails[s] < MaxFails
           /\ sem' = got.free
           /\ acquired' = [acquired EXCEPT ![s] = IF got.ok THEN @ + 1 ELSE @]
           /\ curIdx' = [curIdx EXCEPT ![s] = nxt.curIdx]
           /\ slept' = [slept EXCEPT ![s] = IF nxt.launch THEN @ ELSE nxt.sleep]
           /\ fails' = [fails EXCEPT ![s] = IF nxt.launch THEN @ ELSE @ + 1]
           /\ pc' = [pc EXCEPT ![s] = IF nxt.launch THEN "launched" ELSE "select"]
           /\ phase' = [phase EXCEPT ![s] = IF nxt.launch THEN "start" ELSE @]
    /\ UNCHANGED <<quit, scope, req, idx, pending, trace, beats, released>>
    /\ UNCHANGED asnVars

(***************************************************************************)
(* processDNSRequest, lines 76-119.                                        *)
(***************************************************************************)
\* lines 77-83: the release is deferred; without a bus the call returns,
\* else it publishes a heartbeat and enters the first loop
ProcEntry(s) ==
    /\ phase[s] = "start"
    /\ IF req[s].bus
       THEN /\ phase' = [phase EXCEPT ![s] = "scan"]
            /\ idx' = [idx EXCEPT ![s] = 1]
            /\ pending' = [pending EXCEPT ![s] = <<ActiveEv("", 0)>>]
       ELSE /\ phase' = [phase EXCEPT ![s] = "retNoBus"]
            /\ UNCHANGED <<idx, pending>>
    /\ UNCHANGED <<sem, quit, scope, pc, curIdx, req, trace, fails, slept, beats,
                   acquired, released>>
    /\ UNCHANGED asnVars

\* lines 86-95, one iteration or the end of the loop
ProcScan(s) ==
    /\ phase[s] = "scan"
    /\ pending[s] = << >>
    /\ IF idx[s] > Len(req[s].Records)
       THEN /\ phase' = [phase EXCEPT ![s] = "dispatch"]
            /\ idx' = [idx EXCEPT ![s] = 1]
            /\ UNCHANGED <<req, pending>>
       ELSE \E F \in SUBSET Sinks :
              LET st == ScanStep(req[s], idx[s], scope, F)
              IN  /\ req' = [req EXCEPT ![s] = st.req]
                  /\ pending' = [pending EXCEPT ![s] = st.out]
                  /\ phase' = [phase EXCEPT ![s] = IF st.stop THEN "retCNAME" ELSE @]
                  /\ idx' = [idx EXCEPT ![s] = IF st.stop THEN @ ELSE @ + 1]
    /\ UNCHANGED <<sem, quit, scope, pc, curIdx, trace, fails, slept, beats,
                   acquired, released>>
    /\ UNCHANGED asnVars

\* lines 97-118, one iteration or the end of the loop
ProcDispatch(s) ==
    /\ phase[s] = "dispatch"
    /\ pending[s] = << >>
    /\ IF idx[s] > Len(req[s].Records)
       THEN /\ phase' = [phase EXCEPT ![s] = "retEnd"]
            /\ UNCHANGED <<idx, pending>>
       ELSE \E F \in SUBSET Sinks :
              /\ pending' = [pending EXCEPT
                               ![s] = DispatchStep(req[s], idx[s], scope, F)]
              /\ idx' = [idx EXCEPT ![s] = @ + 1]
              /\ UNCHANGED phase
    /\ UNCHANGED <<sem, quit, scope, pc, curIdx, req, trace, fails, slept, beats,
                   acquired, released>>
    /\ UNCHANGED asnVars

\* the sink inserts and bus publications of the running handler, up to its
\* return
ProcEmit(s) ==
    /\ pending[s] # << >>
    /\ trace' = [trace EXCEPT ![s] = @ \o pending[s]]
    /\ pending' = [pending EXCEPT ![s] = << >>]
    /\ UNCHANGED <<sem, quit, scope, pc, curIdx, req, phase, idx, fails, slept,
                   beats, acquired, released>>
    /\ UNCHANGED asnVars

\* the return of processDNSRequest, which runs the deferred release
ProcReturn(s) ==
    /\ phase[s] \in {"retNoBus", "retCNAME", "retEnd"}
    /\ pending[s] = << >>
    /\ sem' = Release(sem, DeferredRelease(phase[s]))
    /\ released' = [released EXCEPT ![s] = @ + DeferredRelease(phase[s])]
    /\ phase' = [phase EXCEPT ![s] = "done"]
    /\ UNCHANGED <<quit, scope, pc, curIdx, req, idx, pending, trace, fails,
                   slept, beats, acquired>>
    /\ UNCHANGED asnVars

(***************************************************************************)
(* OnASNRequest, lines 122-144.                                            *)
(***************************************************************************)
ASNCall(a) ==
    /\ asnPc[a] = "call"
    /\ \E F \in SUBSET Sinks :
           asnPending' = [asnPending EXCEPT ![a] = OnASNRequest(asnReq[a], F)]
    /\ asnPc' = [asnPc EXCEPT ![a] = "run"]
    /\ UNCHANGED <<asnReq, asnTrace, scope>>
    /\ UNCHANGED dnsVars

\* the sink loop and the heartbeat of lines 133-143
ASNEmit(a) ==
    /\ asnPending[a] # << >>
    /\ asnTrace' = [asnTrace EXCEPT ![a] = @ \o asnPending[a]]
    /\ asnPending' = [asnPending EXCEPT ![a] = << >>]
    /\ UNCHANGED <<asnReq, asnPc, scope>>
    /\ UNCHANGED dnsVars

ASNReturn(a) ==
    /\ asnPc[a] = "run"
    /\ asnPending[a] = << >>
    /\ asnPc' = [asnPc EXCEPT ![a] = "done"]
    /\ UNCHANGED <<asnReq, asnPending, asnTrace, scope>>
    /\ UNCHANGED dnsVars

\* the service is stopped: the quit channel is closed
Stop ==
    /\ ~quit
    /\ quit' = TRUE
    /\ UNCHANGED <<sem, scope, pc, curIdx, req, phase, idx, pending, trace, fails,
                   slept, beats, acquired, released>>
    /\ UNCHANGED asnVars

Next ==
    \/ Stop
    \/ \E s \in Subs : DNSCall(s)
    \/ \E s \in Subs : DNSSelectQuit(s)
    \/ \E s \in Subs : DNSSelectTick(s)
    \/ \E s \in Subs : DNSSelectDefault(s)
    \/ \E s \in Subs : DNSTry(s)
    \/ \E s \in Subs : ProcEntry(s)
    \/ \E s \in Subs : ProcScan(s)
    \/ \E s \in Subs : ProcDispatch(s)
    \/ \E s \in Subs : ProcEmit(s)
    \/ \E s \in Subs : ProcReturn(s)

Spec == Init /\ [][Next]_vars

\* the next step of the goroutine of s: the OnDNSRequest call up to its
\* return, the processDNSRequest task from there on; reading the ticker is
\* left out, nothing obliges a tick to come
Step(s) ==
    \/ DNSCall(s)
    \/ DNSSelectQuit(s)
    \/ DNSSelectDefault(s)
    \/ DNSTry(s)
    \/ ProcEntry(s)
    \/ ProcScan(s)
    \/ ProcDispatch(s)
    \/ ProcEmit(s)
    \/ ProcReturn(s)

\* the Go scheduler lets every goroutine that can run take its next step;
\* nothing obliges the service to be stopped
Fairness == \A s \in Subs : WF_vars(Step(s))

FairSpec == Spec /\ Fairness

\* the dispatch specification: the service is not stopped and the call does
\* not wait
NextPipe ==
    \/ \E s \in Subs : DNSCall(s)
    \/ \E s \in Subs : DNSSelectDefault(s)
    \/ \E s \in Subs : DNSTry(s)
    \/ \E s \in Subs : ProcEntry(s)
    \/ \E s \in Subs : ProcScan(s)
    \/ \E s \in Subs : ProcDispatch(s)
    \/ \E s \in Subs : ProcEmit(s)
    \/ \E s \in Subs : ProcReturn(s)
    \/ \E a \in Asns : ASNCall(a)
    \/ \E a \in Asns : ASNEmit(a)
    \/ \E a \in Asns : ASNReturn(a)

SpecPipe == InitPipe /\ [][NextPipe]_vars

\* the mixed specification: the calls of both entry points interleave
NextMix ==
    \/ \E s \in Subs : DNSCall(s)
    \/ \E s \in Subs : DNSSelectDefault(s)
    \/ \E s \in Subs : DNSTry(s)
    \/ \E s \in Subs : ProcEntry(s)
    \/ \E s \in Subs : ProcScan(s)
    \/ \E s \in Subs : ProcDispatch(s)
    \/ \E s \in Subs : ProcEmit(s)
    \/ \E s \in Subs : ProcReturn(s)
    \/ \E a \in Asns : ASNCall(a)
    \/ \E a \in Asns : ASNEmit(a)
    \/ \E a \in Asns : ASNReturn(a)

SpecMix == InitMix /\ [][NextMix]_vars

(***************************************************************************)
(* Properties.                                                             *)
(***************************************************************************)
\* the goroutine of call s has been admitted and has not returned
Holding(s) ==
    phase[s] \in {"start", "scan", "dispatch", "retNoBus", "retCNAME", "retEnd"}

Active == {s \in Subs : Holding(s)}

HasCNAME(r) == \E i \in 1..Len(r.Records) : Uint16(r.Records[i].Type) = TypeCNAME

FirstCNAME(r) ==
    CHOOSE i \in 1..Len(r.Records) :
        /\ Uint16(r.Records[i].Type) = TypeCNAME
        /\ \A j \in 1..(i - 1) : Uint16(r.Records[j].Type) # TypeCNAME

\* the positions of a trace that hold an entry of kind op
Where(tr, op) == {k \in 1..Len(tr) : tr[k].op = op}

\* C1: the processDNSRequest executions that are admitted and not yet
\* finished never number more than the capacity of the semaphore, whatever
\* the interleaving of the OnDNSRequest calls.
AdmissionBound == Cardinality(Active) <= Capacity

\* one call holds the slot while another has failed to acquire it
AdmissionBoundWitness ==
    \E s, u \in Subs : s # u /\ Holding(s) /\ fails[u] > 0 /\ pc[u] = "select"

\* C2: free slots plus admitted unfinished tasks make the capacity in every
\* state; a finished task acquired one slot and released one, on the CNAME
\* return as on the normal one; with no task running the semaphore is full.
SlotConservation ==
    /\ sem + Cardinality(Active) = Capacity
    /\ \A s \in Subs :
           /\ Holding(s) => acquired[s] = 1 /\ released[s] = 0
           /\ phase[s] = "done" => acquired[s] = 1 /\ released[s] = 1
           /\ phase[s] = "idle" => acquired[s] = 0 /\ released[s] = 0
    /\ (Active = {} => sem = Capacity)

\* one task has returned from the CNAME branch and one from the end of the
\* second loop, and the semaphore is full again
SlotConservationWitness ==
    \E s, u \in Subs :
        /\ phase[s] = "done" /\ HasCNAME(req[s])
        /\ phase[u] = "done" /\ ~HasCNAME(req[u])
        /\ sem = Capacity

\* what never happened to a call that returned on the quit case
Abandoned(s) ==
    /\ phase[s] = "idle"
    /\ trace[s] = << >>
    /\ pending[s] = << >>
    /\ acquired[s] = 0
    /\ released[s] = 0

\* call s evaluates its select in this step
EvaluatesSelect(s) ==
    /\ pc[s] = "select"
    /\ pc'[s] # pc[s] \/ beats' # beats
    /\ \A u \in Subs \ {s} : pc'[u] = pc[u]
    /\ phase' = phase \/ pc'[s] # pc[s]

\* C3: a call that returned on the quit case never ran its task and never
\* acquired or released a slot; and once quit is closed, a call that
\* evaluates its select returns or publishes a heartbeat: it does not go on
\* to TryAcquire and starts no task, even with a slot free.
Cancellation ==
    /\ [](\A s \in Subs : pc[s] = "cancelled" => Abandoned(s))
    /\ [][\A s \in Subs :
            quit /\ EvaluatesSelect(s) =>
                /\ pc'[s] \in {"select", "cancelled"}
                /\ sem' = sem
                /\ acquired' = acquired
                /\ phase' = phase]_vars

\* a call that had waited returned on quit although the slot was free again
CancellationWitness ==
    \E s \in Subs : pc[s] = "cancelled" /\ fails[s] > 0 /\ quit /\ sem = Capacity

\* the handler entries of a trace, in order
IsCall(e) == e.op = "call"
Calls(tr) == SelectSeq(tr, IsCall)

\* C4: when the records hold a CNAME record, the only handler entered is
\* the CNAME handler, once, for the first CNAME record: never more than one
\* entry while the task runs, exactly that one when it has returned.
CNAMEExclusive ==
    \A s \in Subs :
        HasCNAME(req[s]) =>
            LET calls == Calls(trace[s] \o pending[s])
                first == <<CallEv("CNAME", FirstCNAME(req[s]))>>
            IN  /\ calls = << >> \/ calls = first
                /\ phase[s] = "done" => calls = first

\* a finished task whose answer set had an A record before the CNAME record
CNAMEExclusiveWitness ==
    \E s \in Subs :
        /\ phase[s] = "done"
        /\ Len(req[s].Records) = 2
        /\ Uint16(req[s].Records[1].Type) = TypeA
        /\ Uint16(req[s].Records[2].Type) = TypeCNAME
        /\ Len(Calls(trace[s])) = 1

\* the target a handler derives from a normalized record
TargetOf(r) ==
    IF Uint16(r.Type) = TypeNS
    THEN LET pieces == Split(r.Data, ",") IN pieces[Len(pieces)]
    ELSE RemoveLastDot(r.Data)

\* no registrable domain can be derived for the record's target
NoDomain(r, sc) ==
    LET ty == Uint16(r.Type)
    IN  IF ty \in {TypeCNAME, TypeNS, TypeMX}
        THEN EffectiveTLDPlusOne(TargetOf(r)).err
             \/ EffectiveTLDPlusOne(TargetOf(r)).domain = EmptyStr
        ELSE IF ty \in {TypePTR, TypeSRV}
        THEN WhichDomain(sc, TargetOf(r)) = EmptyStr
        ELSE FALSE

\* C5: no NameEvent, published or about to be, has an empty domain, and no
\* NameEvent comes from a record whose target has no derivable domain.
NoEmptyDomain ==
    \A s \in Subs :
        LET tr == trace[s] \o pending[s]
        IN  \A k \in Where(tr, "name") :
                /\ tr[k].b # EmptyStr
                /\ ~NoDomain(NormalizeRecord(req[s].Records[tr[k].idx]), scope)

\* a finished task handled a CNAME record whose target is a bare suffix and
\* published nothing for it
NoEmptyDomainWitness ==
    \E s \in Subs :
        /\ phase[s] = "done"
        /\ req[s].cfg
        /\ HasCNAME(req[s])
        /\ NoDomain(req[s].Records[FirstCNAME(req[s])], scope)
        /\ RemoveLastDot(req[s].Records[FirstCNAME(req[s])].Data) # EmptyStr
        /\ Calls(trace[s]) = <<CallEv("CNAME", FirstCNAME(req[s]))>>
        /\ Where(trace[s], "name") = {}

\* a record as the normalization leaves it
Normalized(r) ==
    /\ IsLower(r.Name) /\ NoTrailingDot(r.Name)
    /\ IsLower(r.Data) /\ NoTrailingDot(r.Data)
    /\ NormalizeRecord(r) = r

\* the records the first loop reaches: up to the first CNAME record
Scanned(r) == IF HasCNAME(r) THEN FirstCNAME(r) ELSE Len(r.Records)

NonSink(tr, i) ==
    LET Test(e) == e.idx = i /\ e.h # "" /\ e.op \in {"name", "addr", "active"}
    IN  SelectSeq(tr, Test)

\* tr, the finished work of a call, against exp, what the handler of record
\* i does when no sink fails: if that writes a fact, every sink has got one
\* insert, every failed insert one log message and no other, and the events
\* and the heartbeat are the same
Isolated(tr, exp, i) ==
    (Where(exp, "insert") # {}) =>
        /\ \A g \in Sinks :
               LET ins == {k \in Where(tr, "insert") :
                               tr[k].idx = i /\ tr[k].sink = g}
                   logs == {k \in Where(tr, "log") :
                               tr[k].idx = i /\ tr[k].sink = g}
               IN  /\ Cardinality(ins) = 1
                   /\ Cardinality(logs) = IF \E k \in ins : ~tr[k].ok THEN 1 ELSE 0
        /\ NonSink(tr, i) = NonSink(exp, i)
        /\ \E k \in Where(tr, "active") : tr[k].idx = i /\ tr[k].h # ""

\* what handling the record i of r does when no sink fails
Unfailing(r, i, sc) ==
    IF Uint16(r.Records[i].Type) = TypeCNAME
    THEN insertCNAME(r, i, sc, {})
    ELSE DispatchStep(r, i, sc, {})

\* the records that processDNSRequest hands to a handler
Handled(r) ==
    IF HasCNAME(r) THEN {FirstCNAME(r)} ELSE 1..Len(r.Records)

\* C7: whichever sinks fail, a handler that writes a fact, and OnASNRequest,
\* calls the insert of every sink once, publishes one log message per failed
\* insert, publishes the same follow-up event and heartbeat as without
\* failures, and the call returns.
FanOutIsolation ==
    /\ \A s \in Subs :
           phase[s] = "done" =>
               \A i \in Handled(req[s]) :
                   Isolated(trace[s], Unfailing(req[s], i, scope), i)
    /\ \A a \in Asns :
           asnPc[a] = "done" =>
               Isolated(asnTrace[a], OnASNRequest(asnReq[a], {}), 0)

\* a finished task whose first sink refused an A record while the second
\* took it, and the AddressEvent was published
FanOutIsolationWitness ==
    \E s \in Subs :
        /\ phase[s] = "done"
        /\ \E k1, k2, k3 \in 1..Len(trace[s]) :
               /\ trace[s][k1].op = "insert" /\ trace[s][k1].h = "A"
               /\ trace[s][k1].sink = 1 /\ ~trace[s][k1].ok
               /\ trace[s][k2].op = "insert" /\ trace[s][k2].h = "A"
               /\ trace[s][k2].sink = NumSinks /\ trace[s][k2].ok
               /\ trace[s][k3].op = "addr" /\ trace[s][k3].h = "A"
               /\ trace[s][k1].idx = trace[s][k2].idx
               /\ trace[s][k1].idx = trace[s][k3].idx

\* the scope authority knows no domain for the target of record i of r
OutOfScope(r, i, sc) ==
    WhichDomain(sc, TargetOf(NormalizeRecord(r.Records[i]))) = EmptyStr

\* C8: a PTR or SRV record for whose target WhichDomain returns the empty
\* string has no NameEvent, published or about to be.
ScopeContainment ==
    \A s \in Subs :
        LET tr == trace[s] \o pending[s]
        IN  \A i \in 1..Len(req[s].Records) :
                /\ Uint16(req[s].Records[i].Type) \in {TypePTR, TypeSRV}
                /\ OutOfScope(req[s], i, scope)
                => \A k \in Where(tr, "name") : tr[k].idx # i

\* a finished task wrote the fact of an SRV record whose target is out of
\* scope and published no NameEvent
ScopeContainmentWitness ==
    \E s \in Subs :
        /\ phase[s] = "done"
        /\ \E i \in 1..Len(req[s].Records) :
               /\ Uint16(req[s].Records[i].Type) = TypeSRV
               /\ OutOfScope(req[s], i, scope)
               /\ \E k \in Where(trace[s], "insert") : trace[s][k].idx = i
        /\ Where(trace[s], "name") = {}

\* the PTR records of a finished call that reached insertPTR with a bus, a
\* config and a non-empty target
ValidPTR(s) ==
    {i \in 1..Len(req[s].Records) :
        /\ phase[s] = "done"
        /\ req[s].cfg
        /\ ~HasCNAME(req[s])
        /\ Uint16(req[s].Records[i].Type) = TypePTR
        /\ TargetOf(req[s].Records[i]) # EmptyStr}

\* sink g has got the PTR fact of record i of call s
PTRWritten(s, i, g) ==
    \E k \in Where(trace[s], "insert") :
        /\ trace[s][k].h = "PTR" /\ trace[s][k].idx = i /\ trace[s][k].sink = g
        /\ trace[s][k].a = req[s].Name
        /\ trace[s][k].b = TargetOf(req[s].Records[i])

\* C9 as claimed: the fact of a PTR record with a non-empty target is
\* written to every sink whether or not the target is in scope.
PTRFactIndependent ==
    \A s \in Subs : \A i \in ValidPTR(s) : \A g \in Sinks : PTRWritten(s, i, g)

\* C9 as amended: the fact of a PTR record with a non-empty target is
\* written to every sink if and only if WhichDomain knows a domain for the
\* target; out of scope neither the fact nor the NameEvent appears.
PTRFactFollowsScope ==
    \A s \in Subs : \A i \in ValidPTR(s) :
        /\ \A g \in Sinks : PTRWritten(s, i, g) <=> ~OutOfScope(req[s], i, scope)
        /\ (\E k \in Where(trace[s], "name") : trace[s][k].idx = i)
               <=> ~OutOfScope(req[s], i, scope)

\* a finished task entered insertPTR for a target out of scope and wrote
\* and published nothing for it
PTRFactFollowsScopeWitness ==
    \E s \in Subs : \E i \in ValidPTR(s) :
        /\ OutOfScope(req[s], i, scope)
        /\ \E k \in Where(trace[s], "call") :
               trace[s][k].h = "PTR" /\ trace[s][k].idx = i
        /\ \A k \in 1..Len(trace[s]) :
               trace[s][k].idx = i => trace[s][k].op \in {"call", "active"}

\* C10 as claimed: for an un-normalized query name and a CNAME record with
\* a valid target, every sink gets the CNAME fact (normalized query name ->
\* normalized target), one NameEvent (target, its registrable domain) is
\* published, and no A or AAAA handler runs.
EndToEndCNAME ==
    \A s \in Subs :
        LET r == req[s]
            tr == trace[s]
        IN  /\ phase[s] = "done" /\ r.cfg /\ HasCNAME(r)
            /\ Normalize(r.Name) # r.Name
            /\ TargetOf(r.Records[FirstCNAME(r)]) # EmptyStr
            /\ ~NoDomain(r.Records[FirstCNAME(r)], scope)
            => LET target == TargetOf(r.Records[FirstCNAME(r)])
               IN  /\ \A g \in Sinks : \E k \in Where(tr, "insert") :
                          tr[k].sink = g /\ tr[k].h = "CNAME"
                   /\ \A k \in Where(tr, "insert") :
                          tr[k].a = Normalize(r.Name) /\ tr[k].b = target
                   /\ Cardinality(Where(tr, "name")) = 1
                   /\ \A k \in Where(tr, "name") :
                          /\ tr[k].a = target
                          /\ tr[k].b = EffectiveTLDPlusOne(target).domain
                   /\ \A k \in Where(tr, "call") : tr[k].h \notin {"A", "AAAA"}

\* the delay schedule of a blocked submission
Schedule == <<25, 50, 75, 100, 150, 250, 500>>

\* the delay after the k-th failed attempt, k = 0, 1, 2, ...
ScheduledDelay(k) == Schedule[(IF k < 6 THEN k ELSE 6) + 1]

\* C11: after its k-th failed TryAcquire (k = 0, 1, ...) a call has slept
\* 25, 50, 75, 100, 150, 250, 500, 500, ... milliseconds; curIdx stays in
\* 0..6 and no sleep is longer than 500; an iteration that publishes the
\* tick heartbeat neither sleeps nor moves curIdx.
BackoffCap ==
    /\ [](\A s \in Subs :
             /\ curIdx[s] \in 0..6
             /\ slept[s] <= 500
             /\ fails[s] > 0 => slept[s] = ScheduledDelay(fails[s] - 1)
             /\ pc[s] \in {"select", "try"} =>
                    curIdx[s] = (IF fails[s] < 6 THEN fails[s] ELSE 6))
    /\ [][beats' # beats =>
             slept' = slept /\ curIdx' = curIdx /\ fails' = fails]_vars

\* a call has failed more often than the schedule is long and has seen a
\* tick while it waited: it slept the longest delay twice running
BackoffCapWitness ==
    \E s \in Subs :
        /\ fails[s] = 8 /\ slept[s] = 500 /\ curIdx[s] = 6
        /\ beats > 0 /\ pc[s] = "select"

\* the executions that are inside a sink loop: processDNSRequest tasks and
\* OnASNRequest calls with inserts still to make
DNSWriters == {s \in Subs : Where(pending[s], "insert") # {}}
ASNWriters == {a \in Asns : Where(asnPending[a], "insert") # {}}

\* C12: the executions performing sink inserts at one time, processDNSRequest
\* tasks and OnASNRequest calls together, never number more than the
\* capacity of the semaphore.
SinkWritersBound ==
    Cardinality(DNSWriters) + Cardinality(ASNWriters) <= Capacity

\* address, prefix and description of an ASN request are all non-empty
Complete(areq) ==
    areq.Address # EmptyStr /\ areq.Prefix # EmptyStr /\ areq.Description # EmptyStr

\* C13: an OnASNRequest call with a bus and a config that has returned has
\* written the infrastructure fact to every sink and then published one
\* heartbeat, its last output, if address, prefix and description are all
\* non-empty, and has done nothing otherwise; no call publishes a NameEvent
\* or an AddressEvent; and no step of a call changes the semaphore or what
\* the OnDNSRequest calls have acquired and released.
ASNFrame ==
    /\ [](\A a \in Asns :
             LET tr == asnTrace[a]
                 areq == asnReq[a]
                 all == asnTrace[a] \o asnPending[a]
             IN  /\ Where(all, "name") = {} /\ Where(all, "addr") = {}
                 /\ asnPc[a] = "done" /\ areq.bus /\ areq.cfg /\ Complete(areq) =>
                        /\ \A g \in Sinks :
                               Cardinality({k \in Where(tr, "insert") :
                                   /\ tr[k].sink = g /\ tr[k].a = areq.Address
                                   /\ tr[k].b = areq.Prefix
                                   /\ tr[k].c = areq.Description}) = 1
                        /\ Cardinality(Where(tr, "insert")) = NumSinks
                        /\ Where(tr, "active") = {Len(tr)}
                 /\ asnPc[a] = "done" /\ ~Complete(areq) => tr = << >>)
    /\ [][asnPc' # asnPc \/ asnTrace' # asnTrace \/ asnPending' # asnPending =>
             sem' = sem /\ acquired' = acquired /\ released' = released]_vars

\* an OnASNRequest call wrote its fact to every sink, one of which refused
\* it, and returned while a processDNSRequest task held the only slot
ASNFrameWitness ==
    \E a \in Asns : \E s \in Subs :
        /\ asnPc[a] = "done" /\ Complete(asnReq[a])
        /\ Cardinality(Where(asnTrace[a], "insert")) = NumSinks
        /\ Where(asnTrace[a], "log") # {}
        /\ Holding(s) /\ sem = 0

\* the OnDNSRequest call s has returned
Returned(s) == pc[s] \in {"launched", "cancelled"}

\* what holds of a call that has or has not returned
ReturnedRight(s) ==
    /\ acquired[s] <= 1
    /\ pc[s] = "launched" => acquired[s] = 1 /\ phase[s] # "idle"
    /\ pc[s] = "cancelled" => quit /\ Abandoned(s)
    /\ phase[s] # "idle" => pc[s] = "launched"

\* C14: under fair scheduling every OnDNSRequest call returns; a call that
\* returned has either acquired one slot and started its task, or saw the
\* quit channel closed and started nothing; no call acquires twice and no
\* task is started a second time.
SubmissionTermination ==
    /\ \A s \in Subs : <>Returned(s)
    /\ \A s \in Subs : ReturnedRight(s)
    /\ [][\A s \in Subs :
             /\ ReturnedRight(s)'
             /\ phase'[s] = "start" /\ phase[s] # "start" =>
                    phase[s] = "idle" /\ acquired'[s] = acquired[s] + 1]_vars

\* every call has returned with its task started, one of them after failed
\* attempts, and the tasks have finished
SubmissionTerminationWitness ==
    /\ \A s \in Subs : pc[s] = "launched" /\ phase[s] = "done"
    /\ \E s \in Subs : fails[s] > 0
    /\ ~quit

\* the record types that have a handler
Supported ==
    {TypeA, TypeAAAA, TypePTR, TypeSRV, TypeNS, TypeMX, TypeTXT, TypeSPF}

HandlerOf(ty) ==
    CASE ty = TypeA -> "A" [] ty = TypeAAAA -> "AAAA" [] ty = TypePTR -> "PTR"
      [] ty = TypeSRV -> "SRV" [] ty = TypeNS -> "NS" [] ty = TypeMX -> "MX"
      [] ty = TypeTXT -> "TXT" [] ty = TypeSPF -> "SPF" [] OTHER -> ""

\* the handler entries input order asks for: one per supported record
RECURSIVE InOrder(_, _)
InOrder(r, i) ==
    IF i > Len(r.Records) THEN << >>
    ELSE (IF Uint16(r.Records[i].Type) \in Supported
          THEN <<CallEv(HandlerOf(Uint16(r.Records[i].Type)), i)>>
          ELSE << >>)
         \o InOrder(r, i + 1)

IsPrefix(p, q) == Len(p) <= Len(q) /\ SubSeq(q, 1, Len(p)) = p

\* C15: for records without a CNAME record the handlers are entered for the
\* supported records in input order, once each: at every moment the entries
\* made are a prefix of that order, and all of it when the task has
\* returned. A record of another type leaves nothing but the heartbeat of
\* its loop iteration: no handler entry, no insert, no event.
InputOrderDispatch ==
    \A s \in Subs :
        ~HasCNAME(req[s]) =>
            LET tr == trace[s] \o pending[s]
            IN  /\ IsPrefix(Calls(tr), InOrder(req[s], 1))
                /\ phase[s] = "done" => Calls(tr) = InOrder(req[s], 1)
                /\ \A k \in 1..Len(tr) :
                       /\ tr[k].idx > 0
                       /\ Uint16(req[s].Records[tr[k].idx].Type) \notin Supported
                       => tr[k] = ActiveEv("", tr[k].idx)

\* a finished task skipped a record of an unsupported type and then wrote
\* the fact of an A record
InputOrderDispatchWitness ==
    \E s \in Subs :
        /\ phase[s] = "done"
        /\ Len(req[s].Records) = 2
        /\ Uint16(req[s].Records[1].Type) \notin Supported \cup {TypeCNAME}
        /\ Calls(trace[s]) = <<CallEv("A", 2)>>
        /\ \E k \in Where(trace[s], "insert") : trace[s][k].idx = 2
        /\ \E k \in Where(trace[s], "active") : trace[s][k].idx = 1

\* the positions of tr that belong to record i
OfRecord(tr, i) == {k \in 1..Len(tr) : tr[k].idx = i}

\* C16: a finished processDNSRequest has published a heartbeat first of
\* all, and for every record it handled (the first CNAME record, or every
\* record when there is none) one heartbeat, which comes after everything
\* else done for that record, also when the handler rejected the record.
DispatcherHeartbeats ==
    \A s \in Subs :
        phase[s] = "done" /\ req[s].cfg =>
            LET tr == trace[s]
            IN  /\ tr # << >> /\ tr[1] = ActiveEv("", 0)
                /\ \A i \in Handled(req[s]) :
                       LET beat == {k \in OfRecord(tr, i) : tr[k].op = "active"}
                       IN  /\ Cardinality(beat) = 1
                           /\ \A k \in beat : \A j \in OfRecord(tr, i) : j <= k

\* the types whose handler writes a fact
FactTypes == {TypeCNAME, TypeA, TypeAAAA, TypePTR, TypeSRV, TypeNS, TypeMX}

\* the record r, normalized, does not pass the validation of its handler
FailsValidation(r, sc) ==
    LET ty == Uint16(r.Type)
    IN  CASE ty \in {TypeA, TypeAAAA} -> TrimSpace(r.Data) = EmptyStr
          [] ty \in {TypeCNAME, TypeNS, TypeMX} ->
                 TargetOf(r) = EmptyStr \/ NoDomain(r, sc)
          [] ty = TypePTR -> TargetOf(r) = EmptyStr \/ NoDomain(r, sc)
          [] ty = TypeSRV ->
                 TargetOf(r) = EmptyStr \/ RemoveLastDot(r.Name) = EmptyStr
          [] OTHER -> FALSE

\* C17: in what a handler that writes a fact does for its record, every
\* sink insert comes before the NameEvent or AddressEvent, which comes
\* before the handler's heartbeat, the last thing done for the record; and
\* a record that fails the handler's validation gets no insert and no
\* event.
HandlerStepOrder ==
    \A s \in Subs :
        LET tr == trace[s] \o pending[s]
        IN  \A k \in 1..Len(tr) :
                tr[k].idx > 0 /\ Uint16(req[s].Records[tr[k].idx].Type) \in FactTypes =>
                    /\ tr[k].op \in {"insert", "log"} =>
                           \A j \in 1..(k - 1) :
                               tr[j].idx = tr[k].idx =>
                                   tr[j].op \in {"call", "insert", "log"}
                                   \/ tr[j] = ActiveEv("", tr[k].idx)
                    /\ tr[k].op = "active" /\ tr[k].h # "" =>
                           \A j \in (k + 1)..Len(tr) : tr[j].idx # tr[k].idx
                    /\ tr[k].op \in {"insert", "name", "addr"} =>
                           ~FailsValidation(
                               NormalizeRecord(req[s].Records[tr[k].idx]), scope)

\* a finished task wrote the fact of an MX record to every sink, then
\* published its NameEvent, then its heartbeat, and did nothing but enter
\* the handler for an A record that was blank
HandlerStepOrderWitness ==
    \E s \in Subs :
        /\ phase[s] = "done"
        /\ Len(req[s].Records) = 2
        /\ Uint16(req[s].Records[2].Type) = TypeA
        /\ \A k \in OfRecord(trace[s], 2) : trace[s][k].op \in {"call", "active"}
        /\ \E k \in OfRecord(trace[s], 2) : trace[s][k].op = "call"
        /\ \E k \in 1..Len(trace[s]) :
               /\ k + NumSinks + 1 <= Len(trace[s])
               /\ \A g \in Sinks :
                      /\ trace[s][k + g - 1].op = "insert"
                      /\ trace[s][k + g - 1].h = "MX"
               /\ trace[s][k + NumSinks].op = "name"
               /\ trace[s][k + NumSinks + 1] = ActiveEv("MX", 1)

\* the NS and MX records of a finished call that reached their handler with
\* a config, a non-empty target and a derivable registrable domain
ValidNSMX(s) ==
    {i \in 1..Len(req[s].Records) :
        /\ phase[s] = "done"
        /\ req[s].cfg
        /\ ~HasCNAME(req[s])
        /\ Uint16(req[s].Records[i].Type) \in {TypeNS, TypeMX}
        /\ TargetOf(req[s].Records[i]) # EmptyStr
        /\ ~NoDomain(req[s].Records[i], scope)}

\* C18: for such an NS record (target: the last comma-separated field) or
\* MX record every sink gets the fact (query name -> target), and one
\* NameEvent (target, its registrable domain, tag DNS) is published if the
\* target differs from that domain, none if they are equal.
ApexRule ==
    \A s \in Subs : \A i \in ValidNSMX(s) :
        LET tr == trace[s]
            target == TargetOf(req[s].Records[i])
            domain == EffectiveTLDPlusOne(target).domain
            names == {k \in OfRecord(tr, i) : tr[k].op = "name"}
        IN  /\ \A g \in Sinks :
                   Cardinality({k \in OfRecord(tr, i) :
                       /\ tr[k].op = "insert" /\ tr[k].sink = g
                       /\ tr[k].a = req[s].Name /\ tr[k].b = target}) = 1
            /\ Cardinality({k \in OfRecord(tr, i) : tr[k].op = "insert"}) = NumSinks
            /\ Cardinality(names) = IF target # domain THEN 1 ELSE 0
            /\ \A k \in names :
                   tr[k].a = target /\ tr[k].b = domain /\ tr[k].tag = DNSTag

\* a finished task wrote the facts of an NS record that names the apex and
\* of an MX record that names a host below it, and published a NameEvent
\* for the second only
ApexRuleWitness ==
    \E s \in Subs :
        /\ ValidNSMX(s) = {1, 2}
        /\ Uint16(req[s].Records[1].Type) = TypeNS
        /\ Uint16(req[s].Records[2].Type) = TypeMX
        /\ \E k \in OfRecord(trace[s], 1) : trace[s][k].op = "insert"
        /\ \A k \in Where(trace[s], "name") : trace[s][k].idx = 2
        /\ Where(trace[s], "name") # {}

\* the TXT and SPF records of a finished call that reached their handler
\* with a config
MinedRecords(s) ==
    {i \in 1..Len(req[s].Records) :
        /\ phase[s] = "done"
        /\ req[s].cfg
        /\ ~HasCNAME(req[s])
        /\ Uint16(req[s].Records[i].Type) \in {TypeTXT, TypeSPF}}

\* the entries of tr of kind op for record i, in order
Published(tr, i, op) ==
    LET Test(e) == e.idx = i /\ e.op = op IN SelectSeq(tr, Test)

\* C19: handling a TXT or SPF record inserts nothing into a sink; when the
\* query name is out of scope the handler publishes nothing; otherwise it
\* publishes one AddressEvent per IPv4 literal of the text, with the
\* domain of the query and without asking for the scope, and a NameEvent
\* for exactly the names of the text that are in scope and for which
\* WhichDomain returns a domain.
TextMining ==
    \A s \in Subs : \A i \in MinedRecords(s) :
        LET tr == trace[s]
            data == req[s].Records[i].Data
            ips == FindIPv4(data)
            Kept(n) == IsDomainInScope(scope, n) /\ WhichDomain(scope, n) # EmptyStr
            kept == SelectSeq(FindSubdomains(data), Kept)
            addrs == Published(tr, i, "addr")
            names == Published(tr, i, "name")
        IN  /\ Published(tr, i, "insert") = << >>
            /\ ~IsDomainInScope(scope, req[s].Name) =>
                   \A k \in OfRecord(tr, i) :
                       tr[k].op = "call" \/ tr[k] = ActiveEv("", i)
            /\ IsDomainInScope(scope, req[s].Name) =>
                   /\ Len(addrs) = Len(ips)
                   /\ \A k \in 1..Len(ips) :
                          addrs[k].a = ips[k] /\ addrs[k].b = req[s].Domain
                   /\ Len(names) = Len(kept)
                   /\ \A k \in 1..Len(kept) :
                          /\ names[k].a = kept[k]
                          /\ names[k].b = WhichDomain(scope, kept[k])

\* a finished task mined a text with an address, a name in scope and a
\* name out of scope: one AddressEvent, one NameEvent, no insert
TextMiningWitness ==
    \E s \in Subs : \E i \in MinedRecords(s) :
        /\ IsDomainInScope(scope, req[s].Name)
        /\ Len(FindSubdomains(req[s].Records[i].Data)) = 2
        /\ Len(Published(trace[s], i, "addr")) = 1
        /\ Len(Published(trace[s], i, "name")) = 1
        /\ Where(trace[s], "insert") = {}

\* the first CNAME record of call s does not pass insertCNAME's validation
InvalidCNAME(s) ==
    /\ HasCNAME(req[s])
    /\ FailsValidation(
           NormalizeRecord(req[s].Records[FirstCNAME(req[s])]), scope)

\* C20: when the first CNAME record of a request fails validation (empty
\* target, or no registrable domain), processing the request inserts
\* nothing into any sink and publishes no NameEvent and no AddressEvent,
\* whatever other records the answer set holds.
InvalidCNAMESuppresses ==
    \A s \in Subs :
        InvalidCNAME(s) =>
            LET tr == trace[s] \o pending[s]
            IN  /\ \A k \in 1..Len(tr) : tr[k].op \in {"call", "active"}
                /\ phase[s] = "done" =>
                       tr = <<ActiveEv("", 0), CallEv("CNAME", FirstCNAME(req[s]))>>

\* a finished task left a valid A record, or a valid second CNAME record,
\* alone because the first CNAME record had no registrable domain
InvalidCNAMESuppressesWitness ==
    \E s \in Subs :
        /\ phase[s] = "done" /\ req[s].cfg
        /\ InvalidCNAME(s)
        /\ Len(req[s].Records) = 2
        /\ Uint16(req[s].Records[1].Type) = TypeCNAME
        /\ TargetOf(req[s].Records[1]) # EmptyStr
        /\ Uint16(req[s].Records[2].Type) \in {TypeA, TypeCNAME}
        /\ ~FailsValidation(NormalizeRecord(req[s].Records[2]), scope)
        /\ Where(trace[s], "insert") = {}

====
